---- MODULE Spec2Model ----
(***************************************************************************)
(* Adaptive batching upsert scheduler of the search indexer                *)
(* (crates/indexer/src/search/client.rs): the shared upsert queue behind   *)
(* its RwLock, the capacity-1 trigger channel, the one-shot stop signal,   *)
(* the scheduler loop try_run_upserts with its dispatch, the supervisor    *)
(* run_upserts, the producers calling upsert_documents, and the timing     *)
(* window refreshed by update_upsert_interval.                             *)
(***************************************************************************)
EXTENDS Integers, Sequences, FiniteSets, TLC

\* ------------------------------------------------------------------ bounds
Producers == {"p1", "p2"}
Indexes == {"metadatas", "name_service"}
MaxDocs == 2
MaxPerCall == 2
MaxBatch == 2
MaxTasks == 2
MaxTime == 2
MaxSample == 2
Durations == {10, 20}
MaxPoints == 3
MaxWindow == 4
SampleDurations == {10, 20, 30, 40}

\* ------------------------------------------------------- program constants
TriggerCap == 1
NanosPerSec == 1000000000
DefaultInterval == 30000

VARIABLES
    \* Client fields and the channels made by new_rc
    queue,          \* upsert_queue: the SegQueue contents, oldest first
    readers,        \* producers holding the RwLock read guard `q`
    wlockHeld,      \* the loop holds the RwLock write guard (`lock` / `lock_if_stopping`)
    timing_set,     \* upsert_timing_set: the BinaryHeap, greatest element (per Ord) first
    timingLocked,   \* the Mutex around upsert_timing_set is held by a run
    trigger,        \* messages buffered in the trigger_upsert channel
    rxClosed,       \* the receiving half of the trigger channel is closed or dropped
    stop,           \* the oneshot stop channel: "armed", "sent", "dropped", "taken"
    upsert_batch, sample_size, dry_run,
    \* new_rc
    boot,           \* the create_index to run next, or "spawned", or "failed"
    index,          \* each index on the service: "absent", or its primary key
    \* run_upserts / try_run_upserts
    err,            \* the Err(e) of the failed run run_upserts recovers from, or "none"
    loopPc,         \* "start","update","select","wlock","dispatch","sleep","stopped","panicked"
    stop_reason,    \* the local stop_reason, "none" for None
    interval,       \* the interval returned by the last update_upsert_interval
    inflight,       \* the futures awaiting add_or_replace, one per index group
    \* upsert_documents calls
    ppc, pidx, pleft, pdocs, pacq, result,
    \* the downstream service
    tasks,          \* the task list get_tasks returns, newest first
    \* history
    nextId, drained, handed, delivered, accepted, sentAtSelect, swapsSinceStop,
          finalSwaps, tickNo,
    winPrev, tasksLast, sameTasks, refreshes

vars == <<queue, readers, wlockHeld, timing_set, timingLocked, trigger, rxClosed, stop,
          upsert_batch, sample_size, dry_run, loopPc, stop_reason, interval, inflight,
          ppc, pidx, pleft, pdocs, pacq, result, tasks,
          nextId, drained, handed, delivered, accepted, sentAtSelect, swapsSinceStop,
          finalSwaps, tickNo,
          winPrev, tasksLast, sameTasks, refreshes, boot, index, err>>

bootVars == <<boot, index>>
clientVars == <<queue, readers, wlockHeld, trigger, rxClosed>>
loopVars == <<loopPc, stop_reason, inflight>>
prodVars == <<ppc, pidx, pleft, pdocs, pacq, result>>
refreshVars == <<winPrev, tasksLast, sameTasks, refreshes>>
timingVars == <<timing_set, interval, refreshVars>>
histVars == <<nextId, drained, handed, delivered, accepted, sentAtSelect, swapsSinceStop,
              finalSwaps, tickNo>>
argVars == <<upsert_batch, sample_size, dry_run>>

\* ------------------------------------------------------------ timing window

\* i128 `/` truncates toward zero
TruncDiv(a, b) == IF a >= 0 THEN a \div b ELSE -((-a) \div b)

\* finished_at.unix_timestamp_nanos() -> NaiveDateTime::from_timestamp_opt(secs, nsecs)
FromTimestamp(nanos) ==
    [secs |-> TruncDiv(nanos, NanosPerSec), nsecs |-> nanos % NanosPerSec]

DateTimeLess(a, b) ==
    \/ a.secs < b.secs
    \/ a.secs = b.secs /\ a.nsecs < b.nsecs

\* faulty variant: the comparison not reversed, the newest datapoint greatest
CmpGreaterNatural(self, rhs) ==
    \/ DateTimeLess(rhs.finished_at, self.finished_at)
    \/ self.finished_at = rhs.finished_at /\ rhs.duration < self.duration

\* UpsertTimingDatapoint::cmp(self, rhs) = Greater
CmpGreater(self, rhs) ==
    \/ DateTimeLess(self.finished_at, rhs.finished_at)
    \/ self.finished_at = rhs.finished_at /\ self.duration < rhs.duration

\* BinaryHeap::push, the heap kept as a sequence with its greatest element first
RECURSIVE HeapPush(_, _)
HeapPush(h, x) ==
    IF h = <<>> THEN <<x>>
    ELSE IF CmpGreater(x, Head(h)) THEN <<x>> \o h
    ELSE <<Head(h)>> \o HeapPush(Tail(h), x)

RECURSIVE HeapExtend(_, _)
HeapExtend(h, xs) ==
    IF xs = <<>> THEN h ELSE HeapExtend(HeapPush(h, Head(xs)), Tail(xs))

\* the filter_map closure: a datapoint for an accepted task, none otherwise
Accepted(task, batch_size) ==
    /\ task.status = "succeeded"
    /\ task.kind = "DocumentAddition"
    /\ task.count >= batch_size \div 2

Datapoint(task) ==
    [finished_at |-> FromTimestamp(task.finished_at), duration |-> task.duration]

RECURSIVE FilterMap(_, _)
FilterMap(ts, batch_size) ==
    IF ts = <<>> THEN <<>>
    ELSE IF Accepted(Head(ts), batch_size)
         THEN <<Datapoint(Head(ts))>> \o FilterMap(Tail(ts), batch_size)
         ELSE FilterMap(Tail(ts), batch_size)

\* cutoff is an Option<DateTime>: <<>> for None, <<c>> for Some(c)
NewerThanCutoff(u, cutoff) ==
    cutoff = <<>> \/ DateTimeLess(cutoff[1], u.finished_at)

RECURSIVE TakeWhile(_, _)
TakeWhile(us, cutoff) ==
    IF us = <<>> THEN <<>>
    ELSE IF NewerThanCutoff(Head(us), cutoff)
         THEN <<Head(us)>> \o TakeWhile(Tail(us), cutoff)
         ELSE <<>>

\* set.peek().map(|u| u.finished_at)
Cutoff(set) == IF set = <<>> THEN <<>> ELSE <<Head(set).finished_at>>

RECURSIVE Trim(_, _)
Trim(set, sample) == IF Len(set) > sample THEN Trim(Tail(set), sample) ELSE set

RECURSIVE InsertSorted(_, _)
InsertSorted(s, d) ==
    IF s = <<>> THEN <<d>>
    ELSE IF d <= Head(s) THEN <<d>> \o s
    ELSE <<Head(s)>> \o InsertSorted(Tail(s), d)

RECURSIVE SortedTimes(_)
SortedTimes(set) ==
    IF set = <<>> THEN <<>> ELSE InsertSorted(SortedTimes(Tail(set)), Head(set).duration)

\* faulty variant: the cast to usize without the round()
RankTruncated(n) == (3 * n) \div 4

\* (times.len() as f64 * 0.75).round() as usize, half away from zero
Rank(n) == (3 * n + 2) \div 4

SelectInterval(times) ==
    IF Rank(Len(times)) < Len(times) THEN times[Rank(Len(times)) + 1]
    ELSE IF Len(times) > 0 THEN times[1]
    ELSE DefaultInterval

WindowAfter(set, ts, sample, batch_size) ==
    Trim(HeapExtend(set, TakeWhile(FilterMap(ts, batch_size), Cutoff(set))), sample)

\* the interval update_upsert_interval returns for the window it leaves behind
IntervalAfter(set, ts, sample, batch_size) ==
    SelectInterval(SortedTimes(WindowAfter(set, ts, sample, batch_size)))

\* ------------------------------------------------------------- the client

TimeUnit == NanosPerSec \div 2

StopReasons == {"trigger event source closed", "stop signal received",
                "error occurred reading stop signal"}

Range(s) == {s[i] : i \in 1..Len(s)}

Ids(q) == [i \in 1..Len(q) |-> q[i].id]

\* documents promised by calls that have not pushed them yet
RECURSIVE SumLeft(_)
SumLeft(ps) ==
    IF ps = {} THEN 0
    ELSE LET p == CHOOSE x \in ps : TRUE IN pleft[p] + SumLeft(ps \ {p})

\* the fields, channels and locals new_rc and run_upserts start from, for the
\* arguments drawn
ClientInit(batches, samples, drys) ==
    /\ queue = <<>>
    /\ readers = {}
    /\ wlockHeld = FALSE
    /\ timing_set = <<>>
    /\ timingLocked = FALSE
    /\ trigger = 0
    /\ rxClosed = FALSE
    /\ stop = "armed"
    /\ upsert_batch \in batches
    /\ sample_size \in samples
    /\ dry_run \in drys
    /\ loopPc = "start"
    /\ stop_reason = "none"
    /\ interval = 0
    /\ inflight = {}
    /\ ppc = [p \in Producers |-> "idle"]
    /\ pidx = [p \in Producers |-> "metadatas"]
    /\ pleft = [p \in Producers |-> 0]
    /\ pdocs = [p \in Producers |-> {}]
    /\ pacq = [p \in Producers |-> 0]
    /\ result = [p \in Producers |-> "none"]
    /\ tasks = <<>>
    /\ nextId = 1
    /\ drained = <<>>
    /\ handed = {}
    /\ delivered = {}
    /\ accepted = {}
    /\ sentAtSelect = FALSE
    /\ swapsSinceStop = 0
    /\ finalSwaps = 0
    /\ tickNo = 0
    /\ winPrev = <<>>
    /\ tasksLast = <<>>
    /\ sameTasks = FALSE
    /\ refreshes = 0
    /\ err = "none"

\* the state new_rc leaves behind when it returns Ok: both indexes in place and
\* the task spawned
InitWith(batches, samples, drys) ==
    /\ ClientInit(batches, samples, drys)
    /\ boot = "spawned"
    /\ index = [i \in Indexes |-> "id"]

Init == InitWith(0..MaxBatch, {MaxSample}, BOOLEAN)

\* --------------------------------------------------------- upsert_documents

\* a producer calls upsert_documents(idx, docs) and awaits upsert_queue.read()
Call(p, i, n) ==
    /\ ppc[p] = "idle"
    /\ (nextId - 1) + SumLeft(Producers) + n <= MaxDocs
    /\ ppc' = [ppc EXCEPT ![p] = "rlock"]
    /\ pidx' = [pidx EXCEPT ![p] = i]
    /\ pleft' = [pleft EXCEPT ![p] = n]
    /\ pdocs' = [pdocs EXCEPT ![p] = {}]
    /\ result' = [result EXCEPT ![p] = "none"]
    /\ UNCHANGED pacq
    /\ UNCHANGED <<clientVars, loopVars, timingVars, histVars, argVars, err, bootVars,
                   timingLocked,
                   stop, tasks>>

\* tokio's RwLock is write-preferring: a reader queues behind a waiting writer
CanRead == ~wlockHeld /\ loopPc # "wlock"

AcquireRead(p) ==
    /\ ppc[p] = "rlock"
    /\ CanRead
    /\ readers' = readers \cup {p}
    /\ ppc' = [ppc EXCEPT ![p] = "push"]
    /\ pacq' = [pacq EXCEPT ![p] = tickNo]
    /\ UNCHANGED <<queue, wlockHeld, trigger, rxClosed, pidx, pleft, pdocs, result,
                   loopVars, timingVars, histVars, argVars, err, bootVars, timingLocked,
                   stop, tasks>>

\* one q.push(p) of the for_each
Push(p) ==
    /\ ppc[p] = "push"
    /\ queue' = Append(queue, [idx |-> pidx[p], id |-> nextId])
    /\ nextId' = nextId + 1
    /\ pdocs' = [pdocs EXCEPT ![p] = @ \cup {nextId}]
    /\ pleft' = [pleft EXCEPT ![p] = @ - 1]
    /\ ppc' = [ppc EXCEPT ![p] = IF pleft[p] = 1 THEN "check" ELSE "push"]
    /\ UNCHANGED <<readers, wlockHeld, trigger, rxClosed, pidx, pacq, result, loopVars,
                   timingVars, argVars, err, bootVars, timingLocked, stop, tasks,
                   drained, handed, delivered, accepted, sentAtSelect, swapsSinceStop,
                   finalSwaps, tickNo>>

\* faulty variant: the threshold test written with > instead of >=
ShouldTriggerStrict(len, batch) == len > batch

\* q.len() >= self.upsert_batch
ShouldTrigger(len, batch) == len >= batch

\* faulty variant: a channel that buffers every signal instead of one
TrySendUnbounded(closed, buffered) == IF closed THEN "Closed" ELSE "Ok"

\* mpsc::Sender::try_send on the bounded channel
TrySend(closed, buffered) ==
    IF closed THEN "Closed"
    ELSE IF buffered >= TriggerCap THEN "Full"
    ELSE "Ok"

\* faulty variant: TrySendError::Full falls into the error arm
OutcomeFullIsError(sent) == IF sent = "Ok" THEN "ok" ELSE "err"

\* the match on the try_send result
Outcome(sent) == IF sent \in {"Ok", "Full"} THEN "ok" ELSE "err"

\* the threshold test, the try_send and the return, which drops the read guard
Check(p) ==
    /\ ppc[p] = "check"
    /\ LET fire == ShouldTrigger(Len(queue), upsert_batch)
           sent == TrySend(rxClosed, trigger)
           res == IF fire THEN Outcome(sent) ELSE "ok"
       IN /\ trigger' = IF fire /\ sent = "Ok" THEN trigger + 1 ELSE trigger
          /\ result' = [result EXCEPT ![p] = res]
          /\ accepted' = IF res = "ok" THEN accepted \cup pdocs[p] ELSE accepted
    /\ readers' = readers \ {p}
    /\ ppc' = [ppc EXCEPT ![p] = "idle"]
    /\ pacq' = [pacq EXCEPT ![p] = 0]
    /\ UNCHANGED <<queue, wlockHeld, rxClosed, pidx, pleft, pdocs, loopVars, timingVars,
                   argVars, err, bootVars, timingLocked, stop, tasks,
                   nextId, drained, handed, delivered, sentAtSelect, swapsSinceStop,
                   finalSwaps, tickNo>>

\* ------------------------------------------------- run_upserts, try_run_upserts

StopFired == stop \in {"sent", "taken"}

\* faulty variant: the calls of an aborted tick are left running
ReturnErrLeavesCalls ==
    /\ loopPc' = "sleep"
    /\ stop_reason' = "none"
    /\ inflight' = inflight
    /\ wlockHeld' = FALSE
    /\ timingLocked' = FALSE

\* try_run_upserts returns Err: its locals (the timing guard, lock_if_stopping,
\* the unordered futures) are dropped and run_upserts goes to its cool-down sleep
ReturnErr ==
    /\ loopPc' = "sleep"
    /\ stop_reason' = "none"
    /\ inflight' = {}
    /\ wlockHeld' = FALSE
    /\ timingLocked' = FALSE

\* faulty variant: lock().await in place of try_lock(), the run waits for the window
StartBlocking ==
    /\ loopPc = "start"
    /\ ~timingLocked
    /\ loopPc' = "update"
    /\ timingLocked' = TRUE
    /\ err' = "none"
    /\ finalSwaps' = 0
    /\ UNCHANGED <<clientVars, stop_reason, inflight, prodVars, timingVars, argVars,
                   bootVars, stop, tasks,
                   nextId, drained, handed, delivered, accepted, sentAtSelect,
                   swapsSinceStop, tickNo>>

\* try_run_upserts is entered: upsert_timing_set.try_lock()
Start ==
    /\ loopPc = "start"
    /\ IF timingLocked
       THEN /\ loopPc' = "sleep"
            /\ err' = "Deadlock detected on upsert timing set"
            /\ UNCHANGED timingLocked
       ELSE /\ loopPc' = "update"
            /\ timingLocked' = TRUE
            /\ err' = "none"
    /\ finalSwaps' = 0
    /\ UNCHANGED <<clientVars, stop_reason, inflight, prodVars, timingVars, argVars,
                   bootVars,
                   stop, tasks,
                   nextId, drained, handed, delivered, accepted, sentAtSelect,
                   swapsSinceStop, tickNo>>

\* update_upsert_interval with get_tasks answering
Update ==
    /\ loopPc = "update"
    /\ timing_set' = WindowAfter(timing_set, tasks, sample_size, upsert_batch)
    /\ interval' = IntervalAfter(timing_set, tasks, sample_size, upsert_batch)
    /\ loopPc' = "select"
    /\ UNCHANGED <<clientVars, stop_reason, inflight, prodVars, histVars, argVars, err,
                   bootVars,
                   timingLocked, stop, tasks, refreshVars>>

\* update_upsert_interval with get_tasks failing: the `?` leaves try_run_upserts
UpdateFails ==
    /\ loopPc = "update"
    /\ ReturnErr
    /\ err' = "Failed to get Meilisearch task list"
    /\ UNCHANGED <<queue, readers, trigger, rxClosed, prodVars, timingVars, histVars,
                   argVars, bootVars, stop, tasks>>

\* select! takes rx.recv(): a buffered signal, or None once the channel is closed
SelectRx ==
    /\ loopPc = "select"
    /\ trigger > 0 \/ rxClosed
    /\ IF trigger > 0
       THEN trigger' = trigger - 1 /\ stop_reason' = "none"
       ELSE UNCHANGED trigger /\ stop_reason' = "trigger event source closed"
    /\ loopPc' = "wlock"
    /\ sentAtSelect' = StopFired
    /\ UNCHANGED <<queue, readers, wlockHeld, rxClosed, inflight, prodVars, timingVars,
                   argVars, err, bootVars, timingLocked, stop, tasks,
                   nextId, drained, handed, delivered, accepted, swapsSinceStop,
                   finalSwaps, tickNo>>

\* select! takes the stop receiver: the value sent, or RecvError if the sender is gone
SelectStop ==
    /\ loopPc = "select"
    /\ stop \in {"sent", "dropped"}
    /\ stop' = IF stop = "sent" THEN "taken" ELSE stop
    /\ stop_reason' = IF stop = "sent" THEN "stop signal received"
                      ELSE "error occurred reading stop signal"
    /\ loopPc' = "wlock"
    /\ sentAtSelect' = StopFired
    /\ UNCHANGED <<clientVars, inflight, prodVars, timingVars, argVars, err, bootVars,
                   timingLocked,
                   tasks,
                   nextId, drained, handed, delivered, accepted, swapsSinceStop,
                   finalSwaps, tickNo>>

\* select! polls the stop receiver again after it has yielded its value: the oneshot
\* receiver panics ("called after complete") and the task ends, dropping rx
SelectPanic ==
    /\ loopPc = "select"
    /\ stop = "taken"
    /\ loopPc' = "panicked"
    /\ rxClosed' = TRUE
    /\ timingLocked' = FALSE
    /\ UNCHANGED <<queue, readers, wlockHeld, trigger, stop_reason, inflight, prodVars,
                   timingVars, histVars, argVars, err, bootVars, stop, tasks>>

\* select! takes the sleep(interval)
SelectTick ==
    /\ loopPc = "select"
    /\ stop_reason' = "none"
    /\ loopPc' = "wlock"
    /\ sentAtSelect' = StopFired
    /\ UNCHANGED <<clientVars, inflight, prodVars, timingVars, argVars, err, bootVars,
                   timingLocked,
                   stop, tasks,
                   nextId, drained, handed, delivered, accepted, swapsSinceStop,
                   finalSwaps, tickNo>>

\* faulty variant: each document is put at the front of its index's Vec
RECURSIVE GroupReversed(_, _)
GroupReversed(q, i) ==
    IF q = <<>> THEN <<>>
    ELSE IF Head(q).idx = i THEN GroupReversed(Tail(q), i) \o <<Head(q).id>>
    ELSE GroupReversed(Tail(q), i)

\* the fold of the drained queue into the map: one Vec per index, in pop order
RECURSIVE Group(_, _)
Group(q, i) ==
    IF q = <<>> THEN <<>>
    ELSE IF Head(q).idx = i THEN <<Head(q).id>> \o Group(Tail(q), i)
    ELSE Group(Tail(q), i)

\* faulty variant: the calls are pushed whatever dry_run says
FuturesIgnoringDryRun(q, dry, tick) ==
    {[idx |-> i, docs |-> Group(q, i), tick |-> tick] : i \in {e.idx : e \in Range(q)}}

\* the futures pushed for the map: none under dry_run
Futures(q, dry, tick) ==
    IF dry THEN {}
    ELSE {[idx |-> i, docs |-> Group(q, i), tick |-> tick] :
            i \in {e.idx : e \in Range(q)}}

\* faulty variant: the swap does not wait for the read guards
CanWriteOverReaders == TRUE

\* the RwLock grants write() once no read guard is out
CanWrite == readers = {}

\* faulty variant: an empty queue ends the tick whether or not a stop reason is set
NothingToDoIgnoringStop(reason, len) == len = 0

\* faulty variant: no test for the empty queue, every tick swaps and dispatches
NothingToDoNever(reason, len) == FALSE

\* stop_reason.is_none() && lock.len() == 0: the tick is a no-op
NothingToDo(reason, len) == reason = "none" /\ len = 0

\* faulty variant: the write guard is dropped after every swap
KeepLockNever(reason) == FALSE

\* faulty variant: the write guard is kept through every dispatch
KeepLockAlways(reason) == TRUE

\* the write guard goes to lock_if_stopping instead of being dropped
KeepLock(reason) == reason # "none"

\* the loop is past its futures: break with the stop reason (rx.close(),
\* stop_rx.close(), return Ok, which drops lock_if_stopping and the timing guard),
\* or go round again
EndOfTick(reason) ==
    IF reason # "none"
    THEN /\ loopPc' = "stopped"
         /\ rxClosed' = TRUE
         /\ wlockHeld' = FALSE
         /\ timingLocked' = FALSE
         /\ UNCHANGED stop_reason
    ELSE /\ loopPc' = "update"
         /\ stop_reason' = "none"
         /\ wlockHeld' = FALSE
         /\ UNCHANGED <<rxClosed, timingLocked>>

\* upsert_queue.write() is granted: the emptiness test, the mem::take, the guard
\* dropped or kept, the grouping and the futures
Swap ==
    /\ loopPc = "wlock"
    /\ CanWrite
    /\ IF NothingToDo(stop_reason, Len(queue))
       THEN /\ loopPc' = "update"
            /\ UNCHANGED <<queue, wlockHeld, rxClosed, timingLocked, stop_reason,
                           inflight, histVars>>
       ELSE /\ queue' = <<>>
            /\ drained' = drained \o Ids(queue)
            /\ handed' = handed \cup UNION {Range(Group(queue, i)) : i \in Indexes}
            /\ tickNo' = tickNo + 1
            /\ swapsSinceStop' = IF sentAtSelect THEN swapsSinceStop + 1
                                  ELSE swapsSinceStop
            /\ finalSwaps' = IF stop_reason # "none" THEN finalSwaps + 1 ELSE finalSwaps
            /\ inflight' = Futures(queue, dry_run, tickNo + 1)
            /\ IF inflight' = {}
               THEN EndOfTick(stop_reason)
               ELSE /\ loopPc' = "dispatch"
                    /\ wlockHeld' = KeepLock(stop_reason)
                    /\ UNCHANGED <<rxClosed, timingLocked, stop_reason>>
            /\ UNCHANGED <<nextId, delivered, accepted, sentAtSelect>>
    /\ UNCHANGED <<readers, trigger, prodVars, timingVars, argVars, err, bootVars, stop,
                   tasks>>

\* the task record the downstream service lists for a completed add_or_replace
TaskFor(c) ==
    [status |-> "succeeded", kind |-> "DocumentAddition", count |-> Len(c.docs),
     finished_at |-> (Len(tasks) + 1) * TimeUnit, duration |-> 10 * Len(c.docs)]

\* futures.next() yields Ok for one add_or_replace
CallOk(c) ==
    /\ loopPc = "dispatch"
    /\ c \in inflight
    /\ inflight' = inflight \ {c}
    /\ delivered' = delivered \cup Range(c.docs)
    /\ tasks' = IF Len(tasks) < MaxTasks THEN <<TaskFor(c)>> \o tasks ELSE tasks
    /\ IF inflight' = {}
       THEN EndOfTick(stop_reason)
       ELSE UNCHANGED <<loopPc, stop_reason, wlockHeld, rxClosed, timingLocked>>
    /\ UNCHANGED <<queue, readers, trigger, prodVars, timingVars, argVars, err, bootVars,
                   stop,
                   nextId, drained, handed, accepted, sentAtSelect, swapsSinceStop,
                   finalSwaps, tickNo>>

\* futures.next() yields Err for one add_or_replace: the `?` leaves try_run_upserts
CallErr(c) ==
    /\ loopPc = "dispatch"
    /\ c \in inflight
    /\ ReturnErr
    /\ err' = "Meilisearch API call failed"
    /\ UNCHANGED <<queue, readers, trigger, rxClosed, prodVars, timingVars, histVars,
                   argVars, bootVars, stop, tasks>>

\* faulty variant: the supervisor gives up after the error of the try_lock
CooldownUnlessDeadlock ==
    /\ loopPc = "sleep"
    /\ err # "Deadlock detected on upsert timing set"
    /\ loopPc' = "start"
    /\ UNCHANGED <<clientVars, stop_reason, inflight, prodVars, timingVars, histVars,
                   argVars, err, bootVars, timingLocked, stop, tasks>>

\* run_upserts: the sleep of five seconds, then try_run_upserts again
Cooldown ==
    /\ loopPc = "sleep"
    /\ loopPc' = "start"
    /\ UNCHANGED <<clientVars, stop_reason, inflight, prodVars, timingVars, histVars,
                   argVars, err, bootVars, timingLocked, stop, tasks>>

\* the owner of the stop sender sends the stop signal
StopSend ==
    /\ stop = "armed"
    /\ stop' = "sent"
    /\ UNCHANGED <<clientVars, loopVars, prodVars, timingVars, histVars, argVars, err,
                   bootVars,
                   timingLocked, tasks>>

\* the owner of the stop sender drops it without sending
StopDrop ==
    /\ stop = "armed"
    /\ stop' = "dropped"
    /\ UNCHANGED <<clientVars, loopVars, prodVars, timingVars, histVars, argVars, err,
                   bootVars,
                   timingLocked, tasks>>

Producer ==
    \E p \in Producers :
        \/ \E i \in Indexes, n \in 1..MaxPerCall : Call(p, i, n)
        \/ AcquireRead(p)
        \/ Push(p)
        \/ Check(p)

Loop ==
    \/ Start
    \/ Update
    \/ UpdateFails
    \/ SelectRx
    \/ SelectStop
    \/ SelectPanic
    \/ SelectTick
    \/ Swap
    \/ \E c \in inflight : CallOk(c)
    \/ \E c \in inflight : CallErr(c)
    \/ Cooldown

Next == Producer \/ Loop \/ StopSend \/ StopDrop

Spec == Init /\ [][Next]_vars

\* ------------------------------------- update_upsert_interval on its own

\* what a task of the downstream list can be: a succeeded document addition with
\* its indexed_documents count (-1 for a count of None), a failed task, or a
\* succeeded task of another type
TaskShapes ==
    {[status |-> "succeeded", kind |-> "DocumentAddition", count |-> 1],
     [status |-> "succeeded", kind |-> "DocumentAddition", count |-> 0],
     [status |-> "succeeded", kind |-> "DocumentAddition", count |-> -1],
     [status |-> "failed", kind |-> "DocumentAddition", count |-> 1],
     [status |-> "succeeded", kind |-> "other", count |-> -1]}

NewestTime == IF tasks = <<>> THEN 1 ELSE Head(tasks).finished_at \div TimeUnit

\* the downstream service finishes a task: it heads the newest-first list
TaskCompletes(shape, t, d) ==
    /\ Len(tasks) < MaxTasks
    /\ t >= NewestTime
    /\ tasks' = <<[status |-> shape.status, kind |-> shape.kind, count |-> shape.count,
                   finished_at |-> t * TimeUnit, duration |-> d]>> \o tasks
    /\ UNCHANGED <<clientVars, loopVars, prodVars, timingVars, histVars, argVars, err,
                   bootVars,
                   timingLocked, stop>>

\* one run of update_upsert_interval on the shared window
Refresh ==
    /\ timing_set' = WindowAfter(timing_set, tasks, sample_size, upsert_batch)
    /\ interval' = IntervalAfter(timing_set, tasks, sample_size, upsert_batch)
    /\ winPrev' = timing_set
    /\ tasksLast' = tasks
    /\ sameTasks' = (refreshes >= 1 /\ tasksLast = tasks)
    /\ refreshes' = IF refreshes < 2 THEN refreshes + 1 ELSE refreshes
    /\ UNCHANGED <<clientVars, loopVars, prodVars, histVars, argVars, err, bootVars,
                   timingLocked,
                   stop, tasks>>

InitTiming == InitWith(0..MaxBatch, 0..MaxSample, {FALSE})

NextTiming ==
    \/ Refresh
    \/ \E shape \in TaskShapes, t \in 1..MaxTime, d \in Durations :
          TaskCompletes(shape, t, d)

TimingSpec == InitTiming /\ [][NextTiming]_vars

\* the scheduler with dry_run off and a threshold of one document
InitFair == InitWith({1}, {MaxSample}, {FALSE})

\* -------------------------------------------------- new_rc and create_index

\* an index on the service: absent, or there with the primary key "id", or there
\* with another primary key or none
IndexStates == {"absent", "id", "other"}

\* what new_rc does after create_index(i) has returned Ok
AfterIndex(i) == IF i = "metadatas" THEN "name_service" ELSE "spawned"

\* get_index answers with the index and get_primary_key with its key: the ensure!
IndexFound(i) ==
    /\ boot = i
    /\ index[i] # "absent"
    /\ boot' = IF index[i] = "id" THEN AfterIndex(i) ELSE "failed"
    /\ UNCHANGED <<clientVars, loopVars, prodVars, timingVars, histVars, argVars, err,
                   index, timingLocked, stop, tasks>>

\* get_index answers with the index and get_primary_key fails
PrimaryKeyUnread(i) ==
    /\ boot = i
    /\ index[i] # "absent"
    /\ boot' = "failed"
    /\ UNCHANGED <<clientVars, loopVars, prodVars, timingVars, histVars, argVars, err,
                   index, timingLocked, stop, tasks>>

\* get_index returns an error, for an absent index or for a request that failed;
\* create_index returns its task and wait_for_task returns the task once it is
\* processed, succeeded (the index is new) or failed: the value is not looked at
IndexRequested(i, status) ==
    /\ boot = i
    /\ status = "succeeded" => index[i] = "absent"
    /\ index' = IF status = "succeeded" THEN [index EXCEPT ![i] = "id"] ELSE index
    /\ boot' = AfterIndex(i)
    /\ UNCHANGED <<clientVars, loopVars, prodVars, timingVars, histVars, argVars, err,
                   timingLocked, stop, tasks>>

\* get_index returns an error, and create_index or wait_for_task returns one too
IndexRequestFails(i) ==
    /\ boot = i
    /\ boot' = "failed"
    /\ UNCHANGED <<clientVars, loopVars, prodVars, timingVars, histVars, argVars, err,
                   index, timingLocked, stop, tasks>>

CreateIndex(i) ==
    \/ IndexFound(i)
    \/ PrimaryKeyUnread(i)
    \/ \E status \in {"succeeded", "failed"} : IndexRequested(i, status)
    \/ IndexRequestFails(i)

InitBoot ==
    /\ ClientInit({1}, {MaxSample}, {FALSE})
    /\ boot = "metadatas"
    /\ index \in [Indexes -> IndexStates]

\* the task and the producers run once new_rc has spawned and returned
NextBoot ==
    \/ \E i \in Indexes : CreateIndex(i)
    \/ boot = "spawned" /\ Next

BootSpec == InitBoot /\ [][NextBoot]_vars

\* ------------------------------------------- an overlapping run of the loop

\* another invocation of try_run_upserts on the same Client has taken the timing
\* window with its try_lock and is in its loop
OtherRunHolds ==
    /\ loopPc \in {"start", "sleep"}
    /\ ~timingLocked
    /\ timingLocked' = TRUE
    /\ UNCHANGED <<clientVars, loopVars, prodVars, timingVars, histVars, argVars, err,
                   bootVars, stop, tasks>>

\* that invocation returns, which drops its guard of the timing window
OtherRunEnds ==
    /\ loopPc \in {"start", "sleep"}
    /\ timingLocked
    /\ timingLocked' = FALSE
    /\ UNCHANGED <<clientVars, loopVars, prodVars, timingVars, histVars, argVars, err,
                   bootVars, stop, tasks>>

NextReentry == Next \/ OtherRunHolds \/ OtherRunEnds

ReentrySpec == InitFair /\ [][NextReentry]_vars

\* ------------------------------- the window fed with a list in any order

\* get_tasks answers with one more succeeded document addition, at any place of
\* the list: update_upsert_interval takes the list in the order it is given
TaskListed(t, d, k) ==
    /\ Len(tasks) < MaxPoints
    /\ k <= Len(tasks)
    /\ tasks' = SubSeq(tasks, 1, k)
                 \o <<[status |-> "succeeded", kind |-> "DocumentAddition", count |-> 1,
                       finished_at |-> t * TimeUnit, duration |-> d]>>
                 \o SubSeq(tasks, k + 1, Len(tasks))
    /\ UNCHANGED <<clientVars, loopVars, prodVars, timingVars, histVars, argVars, err,
                   bootVars,
                   timingLocked, stop>>

InitHeap == InitWith({1}, 0..MaxSample, {FALSE})

NextHeap ==
    \/ Refresh
    \/ \E t \in 1..MaxPoints, k \in 0..MaxPoints : TaskListed(t, 10, k)

HeapSpec == InitHeap /\ [][NextHeap]_vars

\* ------------------------------------ the interval chosen from the window

\* the downstream service finishes a document addition that took d
TaskTimed(d) ==
    /\ Len(tasks) < MaxWindow
    /\ tasks' = <<[status |-> "succeeded", kind |-> "DocumentAddition", count |-> 1,
                   finished_at |-> Len(tasks) + 1, duration |-> d]>> \o tasks
    /\ UNCHANGED <<clientVars, loopVars, prodVars, timingVars, histVars, argVars, err,
                   bootVars,
                   timingLocked, stop>>

InitInterval == InitWith({1}, 0..MaxWindow, {FALSE})

NextInterval ==
    \/ Refresh
    \/ \E d \in SampleDurations : TaskTimed(d)

IntervalSpec == InitInterval /\ [][NextInterval]_vars

\* --------------------------------------------------------------- scheduling

\* The runtime keeps polling the background task and every producer, the timer of
\* the select elapses, every downstream call returns, and neither get_tasks nor
\* add_or_replace fails for ever; select! picks among its ready branches at
\* random, so a stop that stays ready at the select is taken sooner or later.
Fairness ==
    /\ WF_vars(Start)
    /\ WF_vars(Update \/ UpdateFails)
    /\ SF_vars(Update)
    /\ WF_vars(SelectRx \/ SelectStop \/ SelectPanic \/ SelectTick)
    /\ SF_vars(SelectStop)
    /\ WF_vars(Swap)
    /\ WF_vars(\E c \in inflight : CallOk(c) \/ CallErr(c))
    /\ SF_vars(\E c \in inflight : CallOk(c))
    /\ WF_vars(Cooldown)
    /\ \A p \in Producers : WF_vars(AcquireRead(p) \/ Push(p) \/ Check(p))

FairSpec == InitFair /\ [][Next]_vars /\ Fairness

\* ------------------------------------------------------------------- claims

InflightDocs == UNION {Range(c.docs) : c \in inflight}

Pushed == 1..(nextId - 1)

\* C1 (as stated): when the loop has ended in Stopped after the stop signal was
\* sent, exactly one swap of the queue lies between the sending of the stop and
\* the end of the loop; counted are only the swaps of iterations whose select
\* returned with the stop already sent.
C1_ExactlyOneSwapAfterStop ==
    (loopPc = "stopped" /\ StopFired) => swapsSinceStop = 1

\* C1 (amended): once the select has yielded a stop reason, the run makes exactly
\* one swap, with its dispatch, and then returns: the step that leaves the wait
\* for the write lock with a stop reason is a swap, a run never swaps twice with a
\* stop reason, never goes back to refresh or wait after such a swap, and is in
\* Stopped only after exactly one such swap.
C1_OneFinalPass ==
    /\ [](/\ finalSwaps <= 1
          /\ loopPc = "stopped" => finalSwaps = 1
          /\ loopPc \in {"update", "select", "wlock"} => finalSwaps = 0
          /\ loopPc \in {"update", "select"} => stop_reason = "none")
    /\ [][(loopPc = "wlock" /\ stop_reason # "none" /\ loopPc' # "wlock")
            => (finalSwaps' = 1 /\ tickNo' = tickNo + 1
                /\ loopPc' \in {"dispatch", "stopped"})]_vars

\* a run that ended in Stopped after a tick taken before the stop event swapped
\* the queue with the stop already sent
C1_Witness ==
    loopPc = "stopped" /\ stop = "taken" /\ swapsSinceStop = 2 /\ finalSwaps = 1

\* C2: once the stop signal is sent, the background task ends in Stopped.
C2_StopTerminates == (stop = "sent") ~> (loopPc = "stopped")

\* C3: a call that took the shared handle before a swap has finished before it, and
\* every document pushed so far is, exactly once and in push order, either in a
\* buffer a swap took or still in the queue; what a swap took was handed to the
\* dispatch; while the handle of the final swap is kept the queue is empty, so the
\* final swap took all that was pushed before it.
C3_NoEnqueueLost ==
    /\ \A p \in readers : pacq[p] = tickNo
    /\ drained \o Ids(queue) = [i \in Pushed |-> i]
    /\ Range(drained) = handed
    /\ wlockHeld => (readers = {} /\ queue = <<>> /\ Range(drained) = Pushed)

\* the final swap has taken what was pushed while the loop was running, and a
\* producer that came later waits for the shared handle
C3_Witness ==
    /\ wlockHeld
    /\ Len(drained) >= 1
    /\ tickNo = 1
    /\ \E p \in Producers : ppc[p] = "rlock"

\* C4: with dry_run off, a document of a call that returned success is never
\* discarded undelivered: it is still queued, in a call in flight, or delivered.
C4_AtLeastOnce ==
    ~dry_run =>
        \A id \in accepted : id \in Range(Ids(queue)) \cup InflightDocs \cup delivered

\* C5: the calls outstanding all belong to the latest tick, and calls are
\* outstanding only while the loop awaits them: none survives the tick, be it
\* complete or aborted, so no swap starts over outstanding calls.
C5_OneFlushInFlight ==
    /\ \A c \in inflight : c.tick = tickNo
    /\ inflight # {} => loopPc = "dispatch"

\* a second tick has calls in flight after the first tick was aborted
C5_Witness ==
    /\ tickNo = 2
    /\ inflight # {}
    /\ delivered = {}
    /\ Len(drained) = 2

C7_TriggerCoalescing ==
    /\ [](trigger <= 1)
    /\ [][\A p \in Producers :
            (/\ ppc[p] = "check" /\ ppc'[p] = "idle"
             /\ Len(queue) >= upsert_batch /\ trigger = 1 /\ ~rxClosed)
            => (trigger' = 1 /\ result'[p] = "ok")]_vars

\* both producers have fired the trigger before the loop has run at all: one
\* signal is pending and both calls succeeded
C7_Witness ==
    /\ loopPc = "start" /\ tickNo = 0
    /\ upsert_batch = 1
    /\ Len(queue) = 2
    /\ trigger = 1
    /\ \A p \in Producers : ppc[p] = "idle" /\ result[p] = "ok"

C10_IdempotentRefresh ==
    (refreshes >= 2 /\ sameTasks) => timing_set = winPrev

\* the datapoints the last update_upsert_interval had in the heap before it
\* trimmed: those of the window it found and those it took from the task list
InsertedPoints ==
    winPrev \o TakeWhile(FilterMap(tasksLast, upsert_batch), Cutoff(winPrev))

DistinctTimes(ps) ==
    \A i, j \in 1..Len(ps) : ps[i].finished_at = ps[j].finished_at => i = j

\* the k datapoints of ps with the largest finished_at
Newest(ps, k) ==
    {x \in Range(ps) :
        Cardinality({y \in Range(ps) : DateTimeLess(x.finished_at, y.finished_at)}) < k}

\* C11: after every update_upsert_interval the window holds at most sample_size
\* datapoints; when the datapoints in the heap before the trim had distinct
\* finished_at and were more than sample_size, the window is exactly the
\* sample_size of them with the largest finished_at; and the datapoint peek and
\* pop return, the head, has the smallest finished_at of the window.
C11_EvictionOrderAndBound ==
    refreshes >= 1 =>
        /\ Len(timing_set) <= sample_size
        /\ (DistinctTimes(InsertedPoints) /\ Len(InsertedPoints) > sample_size) =>
               /\ Len(timing_set) = sample_size
               /\ Range(timing_set) = Newest(InsertedPoints, sample_size)
        /\ \A i \in 1..Len(timing_set) :
               ~DateTimeLess(timing_set[i].finished_at, Head(timing_set).finished_at)

\* three datapoints listed oldest last but one, trimmed to the two newest
C11_Witness ==
    /\ refreshes = 1
    /\ sample_size = 2
    /\ Len(tasksLast) = 3
    /\ DistinctTimes(InsertedPoints)
    /\ tasksLast[1].finished_at < tasksLast[3].finished_at
    /\ tasksLast[3].finished_at < tasksLast[2].finished_at
    /\ Len(timing_set) = 2
    /\ tasksLast = tasks

\* the number of datapoints of the window with a duration below d, up to d
Below(d) == Cardinality({i \in 1..Len(timing_set) : timing_set[i].duration < d})
UpTo(d) == Cardinality({i \in 1..Len(timing_set) : timing_set[i].duration <= d})

\* the duration at 0-based rank r of the durations of the window in ascending order
AtRank(r) ==
    CHOOSE d \in {timing_set[i].duration : i \in 1..Len(timing_set)} :
        Below(d) <= r /\ r < UpTo(d)

\* 0.75 * n rounded to the nearest integer, a half rounding up
Round75(n) == CHOOSE r \in 0..n : 4 * r - 2 <= 3 * n /\ 3 * n < 4 * r + 2

\* C12: the interval update_upsert_interval returns is the duration at 0-based
\* rank round(0.75 * count) of the window's durations in ascending order, the
\* smallest duration when that rank is out of range, and 30 seconds when the
\* window is empty; it is 40 for the durations 10, 20, 30, 40, and one of the
\* stored durations for every window that is not empty.
C12_PercentileSelection ==
    refreshes >= 1 =>
        LET n == Len(timing_set)
            stored == {timing_set[i].duration : i \in 1..n}
        IN /\ n = 0 => interval = 30000
           /\ (n > 0 /\ Round75(n) < n) => interval = AtRank(Round75(n))
           /\ (n > 0 /\ Round75(n) >= n) => interval = AtRank(0)
           /\ n > 0 => interval \in stored
           /\ (n = 4 /\ stored = {10, 20, 30, 40}) => interval = 40

\* the window holds the durations 10, 20, 30, 40 and the interval chosen is 40
C12_Witness ==
    /\ refreshes >= 1
    /\ Len(timing_set) = 4
    /\ {timing_set[i].duration : i \in 1..4} = {10, 20, 30, 40}
    /\ interval = 40

\* C13: with dry_run set no add_or_replace call is ever in flight or delivered
\* and the loop never awaits a dispatch; a tick that finds documents (or a stop
\* reason) takes the whole queue, leaves it empty and ends without an error, in
\* the next refresh or in Stopped; and the refresh that follows recomputes the
\* interval before the loop waits again.
C13_DryRunSafety ==
    /\ [](dry_run => (/\ inflight = {} /\ delivered = {} /\ tasks = <<>>
                      /\ loopPc # "dispatch"))
    /\ [][(/\ dry_run /\ loopPc = "wlock" /\ loopPc' # "wlock"
           /\ (queue # <<>> \/ stop_reason # "none"))
          => (/\ queue' = <<>>
              /\ drained' = drained \o Ids(queue)
              /\ inflight' = {}
              /\ loopPc' = IF stop_reason = "none" THEN "update" ELSE "stopped")]_vars
    /\ [][(dry_run /\ loopPc = "update" /\ loopPc' = "select")
          => interval' = DefaultInterval]_vars
    /\ [][(dry_run /\ loopPc' = "select" /\ loopPc # "select") => loopPc = "update"]_vars

\* under dry_run a tick has taken two documents, nothing was sent, and the loop
\* waits again with the interval recomputed
C13_Witness ==
    /\ dry_run
    /\ tickNo = 1
    /\ Len(drained) = 2
    /\ queue = <<>>
    /\ loopPc = "select"
    /\ interval = DefaultInterval
    /\ delivered = {}

\* C14: a run that starts while the timing window is held by another run does
\* not wait: its first step is possible at once, ends the run with the error of
\* the try_lock, and changes neither the timing window nor its lock, neither the
\* queue nor its lock, nor the trigger, the stop signal or the downstream calls.
C14_ReentrancyGuard ==
    /\ []((loopPc = "start" /\ timingLocked) => ENABLED Start)
    /\ [][(loopPc = "start" /\ timingLocked /\ loopPc' # "start")
          => (/\ loopPc' = "sleep"
              /\ err' = "Deadlock detected on upsert timing set"
              /\ UNCHANGED <<timing_set, interval, timingLocked, queue, readers,
                             wlockHeld, trigger, rxClosed, stop, inflight, drained,
                             tickNo, tasks>>)]_vars

\* the run has failed on the held window while documents wait in the queue
C14_Witness ==
    /\ loopPc = "sleep"
    /\ err = "Deadlock detected on upsert timing set"
    /\ timingLocked
    /\ queue # <<>>

\* C15 (as stated): after a run has failed because the timing window was held,
\* run_upserts starts no further run.
C15_ReentrancyNotRetried ==
    [][err = "Deadlock detected on upsert timing set"
         => ~(loopPc = "start" /\ loopPc' # "start")]_vars

\* C15 (amended): run_upserts treats the failure on the held timing window as
\* it treats every error of a run: whatever the error, the cool-down can elapse,
\* it leads to the start of a new run and to nothing else, and the error is that
\* of the run awaited last.
C15_ReentrancyRetried ==
    /\ [](loopPc = "sleep" => (err # "none" /\ ENABLED Cooldown))
    /\ [](err # "none" => loopPc \in {"sleep", "start"})
    /\ [][(loopPc = "sleep" /\ loopPc' # "sleep")
          => (loopPc' = "start" /\ err' = err)]_vars

\* the cool-down after the failure on the held window has elapsed and the
\* window is free for the run about to start
C15_Witness ==
    /\ loopPc = "start"
    /\ err = "Deadlock detected on upsert timing set"
    /\ ~timingLocked

\* a is b cut short: b holds the entries of a, in their places, and maybe more
IsPrefix(a, b) == Len(a) <= Len(b) /\ SubSeq(b, 1, Len(a)) = a

\* C16: a run that ends with an error leaves the timing window and the queue as
\* they are; during the cool-down the window stays the same and the queue loses
\* nothing; the cool-down can always elapse, whatever the number of restarts,
\* and is followed by the start of a new run; and run_upserts ends in no other
\* way than by a run that reached Stopped.
C16_SupervisorRestart ==
    /\ [][(loopPc' = "sleep" /\ loopPc # "sleep")
          => (timing_set' = timing_set /\ queue' = queue)]_vars
    /\ [][loopPc = "sleep"
          => (/\ timing_set' = timing_set
              /\ IsPrefix(queue, queue')
              /\ loopPc' \in {"sleep", "start"})]_vars
    /\ [](loopPc = "sleep" => ENABLED Cooldown)
    /\ [](loopPc \notin {"start", "update", "select", "wlock", "dispatch", "sleep"}
            => loopPc = "stopped")

\* C17: the loop and the producers run only once new_rc has spawned the task;
\* the task is spawned only with both indexes in place under the primary key
\* "id", so that an index of another primary key or an index whose creation
\* failed keeps the task from being spawned; and after a failed construction
\* the loop has not started.
C17_BootstrapBeforeRun ==
    /\ (loopPc # "start" \/ nextId > 1 \/ \E p \in Producers : ppc[p] # "idle")
          => boot = "spawned"
    /\ boot = "spawned" => \A i \in Indexes : index[i] = "id"
    /\ boot = "failed" => (loopPc = "start" /\ \A p \in Producers : ppc[p] = "idle")

\* C18: a tick that gets the exclusive handle with no stop reason and an empty
\* queue goes back to the refresh with the handle released, no call issued, no
\* swap counted and the queue, the trigger and the stop signal as they were; and
\* the loop comes to wait only from a refresh, which sets the interval afresh.
C18_NoOpTick ==
    /\ [][(/\ loopPc = "wlock" /\ loopPc' # "wlock"
           /\ stop_reason = "none" /\ queue = <<>>)
          => (/\ loopPc' = "update"
              /\ ~wlockHeld'
              /\ inflight' = {}
              /\ UNCHANGED <<queue, stop, trigger, rxClosed, tickNo, drained, tasks,
                             delivered, stop_reason>>)]_vars
    /\ [][(loopPc' = "select" /\ loopPc # "select")
          => (/\ loopPc = "update"
              /\ interval' = IntervalAfter(timing_set, tasks, sample_size,
                                           upsert_batch))]_vars
    /\ [](loopPc \in {"update", "select"} => (~wlockHeld /\ inflight = {}))

\* the loop is back at the refresh after a refresh, a wait and a tick that found
\* nothing, with the stop signal sent and still pending
C18_Witness ==
    /\ loopPc = "update"
    /\ tickNo = 0
    /\ interval = DefaultInterval
    /\ queue = <<>>
    /\ stop = "sent"
    /\ nextId = 1

\* the place of document id in the queue q
PlaceIn(q, id) == CHOOSE k \in 1..Len(q) : q[k].id = id

\* C19: with dry_run off, the calls a swap issues are one per index that has a
\* document in the queue taken and none for an index without; every document
\* taken is in the list of the call of its index, once, and in no other list;
\* the lists hold nothing else; and each list is in the order of the queue,
\* which is the order of the pushes.
C19_GroupingAndOrder ==
    [][(loopPc = "wlock" /\ tickNo' = tickNo + 1 /\ ~dry_run)
         => LET calls == inflight'
            IN /\ \A i \in Indexes :
                     Cardinality({c \in calls : c.idx = i})
                       = IF \E k \in 1..Len(queue) : queue[k].idx = i THEN 1 ELSE 0
               /\ \A c \in calls : c.idx \in Indexes /\ c.docs # <<>>
               /\ \A k \in 1..Len(queue) : \A c \in calls :
                     Cardinality({j \in 1..Len(c.docs) : c.docs[j] = queue[k].id})
                       = IF c.idx = queue[k].idx THEN 1 ELSE 0
               /\ \A c \in calls : \A j \in 1..Len(c.docs) :
                     /\ \E k \in 1..Len(queue) : queue[k].id = c.docs[j]
                     /\ \A j2 \in 1..Len(c.docs) :
                           j < j2 => /\ PlaceIn(queue, c.docs[j]) < PlaceIn(queue, c.docs[j2])
                                     /\ c.docs[j] < c.docs[j2]]_vars

\* one tick has two calls in flight, one per index
C19_Witness ==
    /\ loopPc = "dispatch"
    /\ Cardinality(inflight) = 2
    /\ \A c \in inflight : c.tick = tickNo /\ Len(c.docs) = 1

\* C20: while a dispatch without stop reason is awaited the loop does not hold
\* the exclusive handle, so a producer that waits for the shared handle can take
\* it; what the producers holding the shared handle have pushed is in the queue
\* and in none of the calls in flight, and no document queued is in such a call.
C20_LockFreeDuringFlush ==
    (loopPc = "dispatch" /\ stop_reason = "none") =>
        /\ ~wlockHeld
        /\ inflight # {}
        /\ \A p \in Producers : ppc[p] = "rlock" => ENABLED AcquireRead(p)
        /\ \A p \in readers :
              pdocs[p] \subseteq Range(Ids(queue)) /\ pdocs[p] \cap InflightDocs = {}
        /\ Range(Ids(queue)) \cap InflightDocs = {}

\* a call is in flight without stop reason, and a producer that took the shared
\* handle after the swap has pushed a document, which waits in the queue
C20_Witness ==
    /\ loopPc = "dispatch"
    /\ stop_reason = "none"
    /\ inflight # {}
    /\ tickNo >= 1
    /\ \E p \in readers : pacq[p] = tickNo /\ pdocs[p] # {} /\ pdocs[p] \subseteq Range(Ids(queue))

====
